---- MODULE Spec2Model ----
(***************************************************************************)
(* Model of hyperdrive's error module (src/error.rs): BuildInErrorKind,    *)
(* BuildInError and FromRequestError<E>.                                   *)
(*                                                                         *)
(* All types are immutable values; the state machine holds one value at a  *)
(* time (`self`), the constructor call that built it (`built`), and the    *)
(* last method call made on it together with its outcome (`result`).       *)
(* Text that the code transforms character by character (method tokens,    *)
(* header values) is a sequence of ASCII codes; text that is only          *)
(* concatenated (display output) is a string.                              *)
(***************************************************************************)
EXTENDS Integers, Sequences, FiniteSets, TLC

VARIABLES self, built, result, future

vars == <<self, built, result, future>>

(* ------------------------------ bounds --------------------------------- *)

\* Longest allowed-methods list handed to wrong_method.
MaxMethods == 2

\* How often the executor polls one future at most.
MaxPolls == 2

(* ----------------------- outcomes and options -------------------------- *)

\* Option<T>
None == [some |-> FALSE]
Some(v) == [some |-> TRUE, value |-> v]

\* Result<T, E>
Ok(v) == [ok |-> TRUE, value |-> v]
Err(e) == [ok |-> FALSE, error |-> e]

\* A call either returns a value or unwinds with a panic.
Returned(v) == [panicked |-> FALSE, value |-> v]
Panicked == [panicked |-> TRUE]

(* ------------------------------ inputs --------------------------------- *)

\* Concrete std::error::Error values a caller can supply as a cause.  Two of
\* them print the same text, so that identity and display text differ.
ConcreteErrors ==
    { [id |-> 1, display |-> "unexpected eof"],
      [id |-> 2, display |-> "unexpected eof"],
      [id |-> 3, display |-> "invalid type" ] }

\* S: Into<BoxedError>  --  Box::new(err) as Box<dyn Error + Send + Sync>
Into_BoxedError(err) == [boxed |-> err]

BoxedErrors == { Into_BoxedError(err) : err \in ConcreteErrors }

\* Display of a Box<dyn Error> forwards to the boxed value.
BoxedError_fmt(source) == source.boxed.display

\* The application's custom error type E, and the NewError it converts into.
CustomErrors ==
    { [id |-> 11, display |-> "db down"],
      [id |-> 12, display |-> "quota"  ] }

\* E: Into<NewError>  --  a total mapping, e.g. NewError::Db(err)
E_into(err) == [variant |-> "Db", inner |-> err]

\* http::Method values: a standard method, or an extension method that keeps
\* the bytes it was parsed from (any token characters, lower case included).
Methods ==
    { [inner |-> "Get",       bytes |-> <<>>],
      [inner |-> "Extension", bytes |-> <<103, 101, 116>>],         \* "get"
      [inner |-> "Extension", bytes |-> <<112, 111, 115, 116>>],    \* "post"
      [inner |-> "Extension", bytes |-> <<109, 45, 120>>] }         \* "m-x"

\* http::Method::as_str
Method_as_str(method) ==
    IF method.inner = "Get" THEN <<71, 69, 84>> ELSE method.bytes

\* Every method list up to MaxMethods long, duplicates and the empty list
\* included.
MethodLists == UNION { [1..n -> Methods] : n \in 0..MaxMethods }

(* -------------------------- BuildInErrorKind --------------------------- *)

\* The enum's variants, the hidden one included: it is a public variant of a
\* public enum and any caller can name it.
BuildInErrorKind ==
    { "QueryParam", "Body", "PathSegment", "NoMatchingRoute", "WrongMethod",
      "__Nonexhaustive" }

BAD_REQUEST == 400
NOT_FOUND == 404
METHOD_NOT_ALLOWED == 405

\* Mutant: a path segment that fails to parse reported as a bad request.
BuildInErrorKind_http_status_PathSegment400(kind) ==
    CASE kind \in {"QueryParam", "Body", "PathSegment"} -> Returned(BAD_REQUEST)
      [] kind = "NoMatchingRoute" -> Returned(NOT_FOUND)
      [] kind = "WrongMethod" -> Returned(METHOD_NOT_ALLOWED)
      [] kind = "__Nonexhaustive" -> Panicked

BuildInErrorKind_http_status(kind) ==
    CASE kind \in {"QueryParam", "Body"} -> Returned(BAD_REQUEST)
      [] kind \in {"PathSegment", "NoMatchingRoute"} -> Returned(NOT_FOUND)
      [] kind = "WrongMethod" -> Returned(METHOD_NOT_ALLOWED)
      [] kind = "__Nonexhaustive" -> Panicked    \* unreachable!(..)

BuildInErrorKind_fmt(kind) ==
    CASE kind = "PathSegment" -> Returned("failed to parse data in path segment")
      [] kind = "QueryParam" -> Returned("failed to parse query parameters")
      [] kind = "Body" -> Returned("failed to parse request body")
      [] kind = "NoMatchingRoute" -> Returned("requested route does not exist")
      [] kind = "WrongMethod" -> Returned("method not supported on this endpoint")
      [] kind = "__Nonexhaustive" -> Panicked    \* unreachable!(..)

(* ----------------------------- BuildInError ---------------------------- *)

BuildInError_from_kind(kind) ==
    [kind |-> kind, allowed_methods |-> <<>>, source |-> None]

BuildInError_with_source(kind, source) ==
    [kind |-> kind, allowed_methods |-> <<>>,
     source |-> Some(Into_BoxedError(source))]

BuildInError_wrong_method(allowed_methods) ==
    [kind |-> "WrongMethod", allowed_methods |-> allowed_methods,
     source |-> None]

\* Mutant: the cause dropped instead of stored.
BuildInError_malformed_body_NoSource(source) ==
    [kind |-> "Body", allowed_methods |-> <<>>, source |-> None]

BuildInError_malformed_body(source) ==
    [kind |-> "Body", allowed_methods |-> <<>>, source |-> Some(source)]

BuildInError_kind(err) == err.kind

BuildInError_http_status(err) == BuildInErrorKind_http_status(err.kind)

\* str::to_uppercase on an ASCII token
to_uppercase(s) ==
    [i \in 1..Len(s) |-> IF s[i] \in 97..122 THEN s[i] - 32 ELSE s[i]]

\* [String]::join(", ")
RECURSIVE join(_, _)
join(strings, sep) ==
    IF Len(strings) = 0 THEN <<>>
    ELSE IF Len(strings) = 1 THEN strings[1]
    ELSE strings[1] \o sep \o join(Tail(strings), sep)

\* The bytes http::HeaderValue accepts: visible ASCII, space, tab, obs-text.
HeaderValue_is_valid(bytes) ==
    \A i \in 1..Len(bytes) :
        (bytes[i] >= 32 /\ bytes[i] # 127) \/ bytes[i] = 9

\* Mutant: the method tokens joined as they are, not upper-cased.
AllowValue_AsWritten(err) ==
    join([i \in 1..Len(err.allowed_methods) |->
              Method_as_str(err.allowed_methods[i])],
         <<44, 32>>)

\* The value put into the Allow header.
AllowValue(err) ==
    join([i \in 1..Len(err.allowed_methods) |->
              to_uppercase(Method_as_str(err.allowed_methods[i]))],
         <<44, 32>>)

\* Mutant: the Allow header attached whatever the kind.
ResponseHeaders_AlwaysAllow(err) ==
    << [name |-> "allow", value |-> AllowValue(err)] >>

\* The header list the builder holds when .body(()) is called.
ResponseHeaders(err) ==
    IF err.kind = "WrongMethod"
    THEN << [name |-> "allow", value |-> AllowValue(err)] >>
    ELSE << >>

BuildInError_response(err) ==
    IF BuildInError_http_status(err).panicked THEN Panicked
    ELSE IF \E i \in 1..Len(ResponseHeaders(err)) :
                ~HeaderValue_is_valid(ResponseHeaders(err)[i].value)
    THEN Panicked    \* .expect("could not build HTTP response for error")
    ELSE Returned([status |-> BuildInError_http_status(err).value,
                   headers |-> ResponseHeaders(err),
                   body |-> "()"])

\* Mutant: the stored list handed out without looking at the kind.
BuildInError_allowed_methods_Unchecked(err) == Some(err.allowed_methods)

BuildInError_allowed_methods(err) ==
    IF BuildInError_kind(err) = "WrongMethod"
    THEN Some(err.allowed_methods)
    ELSE None

\* Mutant: the cause left out of the text.
BuildInError_fmt_KindOnly(err) == BuildInErrorKind_fmt(err.kind)

BuildInError_fmt(err) ==
    IF BuildInErrorKind_fmt(err.kind).panicked THEN Panicked
    ELSE IF ~err.source.some
    THEN Returned(BuildInErrorKind_fmt(err.kind).value)
    ELSE Returned(BuildInErrorKind_fmt(err.kind).value \o ": "
                      \o BoxedError_fmt(err.source.value))

BuildInError_source(err) ==
    IF err.source.some THEN Some(err.source.value) ELSE None

(* --------------------------- FromRequestError -------------------------- *)

\* The two variants of FromRequestError<E>.
Custom(err) == [tag |-> "Custom", payload |-> err]
BuildIn(err) == [tag |-> "BuildIn", payload |-> err]

FromRequestError_malformed_body(source) ==
    BuildIn(BuildInError_malformed_body(source))

FromRequestError_wrong_method(allowed_methods) ==
    BuildIn(BuildInError_wrong_method(allowed_methods))

FromRequestError_no_matching_route ==
    BuildIn(BuildInError_from_kind("NoMatchingRoute"))

FromRequestError_as_build_in(this) ==
    IF this.tag = "BuildIn" THEN Some(this.payload) ELSE None

FromRequestError_into_build_in(this) ==
    IF this.tag = "BuildIn" THEN Ok(this.payload) ELSE Err(this)

FromRequestError_as_custom(this) ==
    IF this.tag = "Custom" THEN Some(this.payload) ELSE None

\* Mutant: the error handed back rebuilt from its kind alone.
FromRequestError_into_custom_Rebuilt(this) ==
    IF this.tag = "Custom" THEN Ok(this.payload)
    ELSE Err(BuildIn(BuildInError_from_kind(this.payload.kind)))

FromRequestError_into_custom(this) ==
    IF this.tag = "Custom" THEN Ok(this.payload) ELSE Err(this)

\* Mutant: a future with nothing to hand out.
FromRequestError_into_future_Empty(this) == [inner |-> None]

\* Box::new(Err(self).into_future()): a futures::future::FutureResult, whose
\* only field is the result it will hand out on its first poll.
FromRequestError_into_future(this) == [inner |-> Some(Err(this))]

\* FutureResult::poll: inner.take().expect(..).map(Async::Ready)
FutureResult_poll(fut) ==
    IF ~fut.inner.some THEN Panicked    \* "cannot poll Result twice"
    ELSE IF fut.inner.value.ok
    THEN Returned(Ok([async |-> "Ready", value |-> fut.inner.value.value]))
    ELSE Returned(Err(fut.inner.value.error))

\* The future after a poll: take() has emptied the slot.
FutureResult_after_poll(fut) == [inner |-> None]

\* Mutant: the built-in error rebuilt from its kind alone.
FromRequestError_convert_custom_error_Rebuilt(this) ==
    IF this.tag = "Custom"
    THEN Custom(E_into(this.payload))
    ELSE BuildIn(BuildInError_from_kind(this.payload.kind))

FromRequestError_convert_custom_error(this) ==
    IF this.tag = "Custom"
    THEN Custom(E_into(this.payload))
    ELSE BuildIn(this.payload)

FromRequestError_source(this) == Some(this.payload)

FromRequestError_fmt(this) ==
    IF this.tag = "Custom"
    THEN Returned(this.payload.display)
    ELSE BuildInError_fmt(this.payload)

(* ------------------------------- state --------------------------------- *)

\* What the caller currently owns.
Nothing == [type |-> "Nothing"]
OwnsBuildInError(err) == [type |-> "BuildInError", value |-> err]
OwnsFromRequestError(err) == [type |-> "FromRequestError", value |-> err]

NoCall == [op |-> "none"]
Call(op, on, out) == [op |-> op, on |-> on, out |-> out]

NotBuilt == [ctor |-> "none"]
\* No future has been made yet, or the one made was dropped.
NoFuture == None

Init ==
    /\ self = Nothing
    /\ built = NotBuilt
    /\ result = NoCall
    /\ future = NoFuture

\* A freshly constructed value replaces whatever was held before: no call has
\* been made on it yet, and a future made from the old value is dropped.

(* ---------------------- calls on BuildInErrorKind ---------------------- *)

Call_BuildInErrorKind_http_status ==
    \E kind \in BuildInErrorKind :
        /\ result' = Call("BuildInErrorKind::http_status", kind,
                          BuildInErrorKind_http_status(kind))
        /\ UNCHANGED <<self, built, future>>

Call_BuildInErrorKind_fmt ==
    \E kind \in BuildInErrorKind :
        /\ result' = Call("BuildInErrorKind::fmt", kind,
                          BuildInErrorKind_fmt(kind))
        /\ UNCHANGED <<self, built, future>>

(* ------------------------ calls on BuildInError ------------------------ *)

Call_BuildInError_from_kind ==
    \E kind \in BuildInErrorKind :
        /\ self' = OwnsBuildInError(BuildInError_from_kind(kind))
        /\ built' = [ctor |-> "BuildInError::from_kind", kind |-> kind]
        /\ result' = NoCall
        /\ future' = NoFuture

Call_BuildInError_with_source ==
    \E kind \in BuildInErrorKind, source \in ConcreteErrors :
        /\ self' = OwnsBuildInError(BuildInError_with_source(kind, source))
        /\ built' = [ctor |-> "BuildInError::with_source",
                        kind |-> kind, source |-> source]
        /\ result' = NoCall
        /\ future' = NoFuture

Call_BuildInError_wrong_method ==
    \E allowed_methods \in MethodLists :
        /\ self' = OwnsBuildInError(BuildInError_wrong_method(allowed_methods))
        /\ built' = [ctor |-> "BuildInError::wrong_method",
                        allowed_methods |-> allowed_methods]
        /\ result' = NoCall
        /\ future' = NoFuture

Call_BuildInError_malformed_body ==
    \E source \in BoxedErrors :
        /\ self' = OwnsBuildInError(BuildInError_malformed_body(source))
        /\ built' = [ctor |-> "BuildInError::malformed_body", source |-> source]
        /\ result' = NoCall
        /\ future' = NoFuture

\* A method taking &self: the value stays with the caller.
Borrow(op, out) ==
    /\ result' = Call(op, self.value, out)
    /\ UNCHANGED <<self, built, future>>

Call_BuildInError_kind ==
    /\ self.type = "BuildInError"
    /\ Borrow("BuildInError::kind",
              Returned(BuildInError_kind(self.value)))

Call_BuildInError_http_status ==
    /\ self.type = "BuildInError"
    /\ Borrow("BuildInError::http_status",
              BuildInError_http_status(self.value))

Call_BuildInError_response ==
    /\ self.type = "BuildInError"
    /\ Borrow("BuildInError::response",
              BuildInError_response(self.value))

Call_BuildInError_allowed_methods ==
    /\ self.type = "BuildInError"
    /\ Borrow("BuildInError::allowed_methods",
              Returned(BuildInError_allowed_methods(self.value)))

Call_BuildInError_fmt ==
    /\ self.type = "BuildInError"
    /\ Borrow("BuildInError::fmt",
              BuildInError_fmt(self.value))

Call_BuildInError_source ==
    /\ self.type = "BuildInError"
    /\ Borrow("BuildInError::source",
              Returned(BuildInError_source(self.value)))

(* ---------------------- calls on FromRequestError ---------------------- *)

\* FromRequestError::Custom(err)
Call_Custom ==
    \E err \in CustomErrors :
        /\ self' = OwnsFromRequestError(Custom(err))
        /\ built' = [ctor |-> "FromRequestError::Custom", custom |-> err]
        /\ result' = NoCall
        /\ future' = NoFuture

\* FromRequestError::BuildIn(err), on the BuildInError the caller holds.
Call_BuildIn ==
    /\ self.type = "BuildInError"
    /\ self' = OwnsFromRequestError(BuildIn(self.value))
    /\ result' = NoCall
    /\ UNCHANGED <<built, future>>

Call_FromRequestError_malformed_body ==
    \E source \in BoxedErrors :
        /\ self' = OwnsFromRequestError(FromRequestError_malformed_body(source))
        /\ built' = [ctor |-> "FromRequestError::malformed_body",
                        source |-> source]
        /\ result' = NoCall
        /\ future' = NoFuture

Call_FromRequestError_wrong_method ==
    \E allowed_methods \in MethodLists :
        /\ self' = OwnsFromRequestError(
                       FromRequestError_wrong_method(allowed_methods))
        /\ built' = [ctor |-> "FromRequestError::wrong_method",
                        allowed_methods |-> allowed_methods]
        /\ result' = NoCall
        /\ future' = NoFuture

Call_FromRequestError_no_matching_route ==
    /\ self' = OwnsFromRequestError(FromRequestError_no_matching_route)
    /\ built' = [ctor |-> "FromRequestError::no_matching_route"]
    /\ result' = NoCall
    /\ future' = NoFuture

Call_FromRequestError_as_build_in ==
    /\ self.type = "FromRequestError"
    /\ Borrow("FromRequestError::as_build_in",
              Returned(FromRequestError_as_build_in(self.value)))

Call_FromRequestError_as_custom ==
    /\ self.type = "FromRequestError"
    /\ Borrow("FromRequestError::as_custom",
              Returned(FromRequestError_as_custom(self.value)))

Call_FromRequestError_source ==
    /\ self.type = "FromRequestError"
    /\ Borrow("FromRequestError::source",
              Returned(FromRequestError_source(self.value)))

Call_FromRequestError_fmt ==
    /\ self.type = "FromRequestError"
    /\ Borrow("FromRequestError::fmt",
              FromRequestError_fmt(self.value))

\* A method taking self by value: the caller is left with what it returns.
Call_FromRequestError_into_build_in ==
    /\ self.type = "FromRequestError"
    /\ LET out == FromRequestError_into_build_in(self.value) IN
         /\ result' = Call("FromRequestError::into_build_in", self.value,
                           Returned(out))
         /\ self' = IF out.ok THEN OwnsBuildInError(out.value)
                    ELSE OwnsFromRequestError(out.error)
    /\ UNCHANGED <<built, future>>

Call_FromRequestError_into_custom ==
    /\ self.type = "FromRequestError"
    /\ LET out == FromRequestError_into_custom(self.value) IN
         /\ result' = Call("FromRequestError::into_custom", self.value,
                           Returned(out))
         /\ self' = IF out.ok THEN Nothing
                    ELSE OwnsFromRequestError(out.error)
    /\ UNCHANGED <<built, future>>

Call_FromRequestError_convert_custom_error ==
    /\ self.type = "FromRequestError"
    /\ result' = Call("FromRequestError::convert_custom_error", self.value,
                      Returned(FromRequestError_convert_custom_error(self.value)))
    /\ self' = Nothing
    /\ UNCHANGED <<built, future>>

Call_FromRequestError_into_future ==
    /\ self.type = "FromRequestError"
    /\ future' = Some([task |-> FromRequestError_into_future(self.value),
                        polls |-> 0])
    /\ built' = [ctor |-> "FromRequestError::into_future", this |-> self.value]
    /\ result' = NoCall
    /\ self' = Nothing

\* The executor polls the future.
Call_Future_poll ==
    /\ future.some
    /\ future.value.polls < MaxPolls
    /\ result' = Call("Future::poll", future.value,
                      FutureResult_poll(future.value.task))
    /\ future' = Some([task |-> FutureResult_after_poll(future.value.task),
                        polls |-> future.value.polls + 1])
    /\ UNCHANGED <<self, built>>

(* --------------------------- specification ----------------------------- *)

Next ==
    \/ Call_BuildInErrorKind_http_status
    \/ Call_BuildInErrorKind_fmt
    \/ Call_BuildInError_from_kind
    \/ Call_BuildInError_with_source
    \/ Call_BuildInError_wrong_method
    \/ Call_BuildInError_malformed_body
    \/ Call_BuildInError_kind
    \/ Call_BuildInError_http_status
    \/ Call_BuildInError_response
    \/ Call_BuildInError_allowed_methods
    \/ Call_BuildInError_fmt
    \/ Call_BuildInError_source
    \/ Call_Custom
    \/ Call_BuildIn
    \/ Call_FromRequestError_malformed_body
    \/ Call_FromRequestError_wrong_method
    \/ Call_FromRequestError_no_matching_route
    \/ Call_FromRequestError_as_build_in
    \/ Call_FromRequestError_as_custom
    \/ Call_FromRequestError_source
    \/ Call_FromRequestError_fmt
    \/ Call_FromRequestError_into_build_in
    \/ Call_FromRequestError_into_custom
    \/ Call_FromRequestError_convert_custom_error
    \/ Call_FromRequestError_into_future
    \/ Call_Future_poll

Spec == Init /\ [][Next]_vars

(* ------------------------------- claims -------------------------------- *)

\* The five kinds the documentation lists.
DocumentedKinds ==
    {"QueryParam", "Body", "PathSegment", "NoMatchingRoute", "WrongMethod"}

\* The BuildInError the caller holds, directly or inside a BuildIn variant.
HoldsBuildInError ==
    \/ self.type = "BuildInError"
    \/ self.type = "FromRequestError" /\ self.value.tag = "BuildIn"

HeldBuildInError ==
    IF self.type = "BuildInError" THEN self.value ELSE self.value.payload

\* The method list the constructor call was given, if it took one.
SuppliedMethods ==
    IF built.ctor \in {"BuildInError::wrong_method",
                       "FromRequestError::wrong_method"}
    THEN built.allowed_methods
    ELSE <<>>

\* Text as ASCII codes.
GET == <<71, 69, 84>>
POST == <<80, 79, 83, 84>>
CommaSpace == <<44, 32>>
std_get == [inner |-> "Get", bytes |-> <<>>]
ext_get == [inner |-> "Extension", bytes |-> <<103, 101, 116>>]
ext_post == [inner |-> "Extension", bytes |-> <<112, 111, 115, 116>>]

\* C1: http_status() of a kind is 400 for QueryParam and Body, 404 for
\* PathSegment and NoMatchingRoute, 405 for WrongMethod; http_status() of an
\* error built by any constructor is that of its kind.
C1_HttpStatusMapping ==
    /\ result.op = "BuildInErrorKind::http_status" =>
         /\ result.on \in {"QueryParam", "Body"} =>
                result.out = Returned(400)
         /\ result.on \in {"PathSegment", "NoMatchingRoute"} =>
                result.out = Returned(404)
         /\ result.on = "WrongMethod" => result.out = Returned(405)
    /\ result.op = "BuildInError::http_status" =>
         /\ result.out = BuildInErrorKind_http_status(BuildInError_kind(result.on))
         /\ result.on.kind \in {"QueryParam", "Body"} =>
                result.out = Returned(400)
         /\ result.on.kind \in {"PathSegment", "NoMatchingRoute"} =>
                result.out = Returned(404)
         /\ result.on.kind = "WrongMethod" => result.out = Returned(405)

\* C1 witness: http_status() was called on a PathSegment error built with a
\* cause and gave 404.
C1_Witness ==
    /\ result.op = "BuildInError::http_status"
    /\ built.ctor = "BuildInError::with_source"
    /\ built.kind = "PathSegment"
    /\ result.out = Returned(404)

\* What the Allow header must read for a method list: every token in upper
\* case, in the list's order, separated by ", ".
UpperCase(token) ==
    [i \in 1..Len(token) |->
        IF \E k \in 0..25 : token[i] = 97 + k THEN token[i] - 97 + 65
        ELSE token[i]]

RECURSIVE ExpectedAllow(_)
ExpectedAllow(methods) ==
    IF methods = <<>> THEN <<>>
    ELSE IF Len(methods) = 1 THEN UpperCase(Method_as_str(methods[1]))
    ELSE ExpectedAllow(SubSeq(methods, 1, Len(methods) - 1)) \o CommaSpace
             \o UpperCase(Method_as_str(methods[Len(methods)]))

AllowHeaders(response) ==
    { i \in 1..Len(response.headers) : response.headers[i].name = "allow" }

\* C2: response() of a WrongMethod error, however it was built, has status
\* 405 and one Allow header: the stored method tokens in upper case, joined
\* with ", ", in the order the constructor was given them, duplicates kept.
C2_WrongMethodAllowHeader ==
    (result.op = "BuildInError::response" /\ result.on.kind = "WrongMethod") =>
        /\ ~result.out.panicked
        /\ result.out.value.status = 405
        /\ result.on.allowed_methods = SuppliedMethods
        /\ Cardinality(AllowHeaders(result.out.value)) = 1
        /\ \A i \in AllowHeaders(result.out.value) :
              /\ result.out.value.headers[i].value
                     = ExpectedAllow(SuppliedMethods)
              /\ SuppliedMethods = <<ext_get, ext_post>> =>
                     result.out.value.headers[i].value
                         = GET \o CommaSpace \o POST
              /\ SuppliedMethods = <<ext_post, ext_get>> =>
                     result.out.value.headers[i].value
                         = POST \o CommaSpace \o GET
              /\ SuppliedMethods = <<ext_get, std_get>> =>
                     result.out.value.headers[i].value
                         = GET \o CommaSpace \o GET
              /\ SuppliedMethods = <<>> =>
                     result.out.value.headers[i].value = <<>>

\* C2 witness: wrong_method(["get", "post"]).response() carried
\* Allow: "GET, POST".
C2_Witness ==
    /\ result.op = "BuildInError::response"
    /\ built.ctor = "BuildInError::wrong_method"
    /\ built.allowed_methods = <<ext_get, ext_post>>
    /\ result.out.value.status = 405
    /\ result.out.value.headers
           = << [name |-> "allow", value |-> GET \o CommaSpace \o POST] >>

\* C3: response() of a QueryParam, Body, PathSegment or NoMatchingRoute
\* error, with or without a cause, sets the status of its kind and no header
\* at all; no_matching_route() gives 404 without an Allow header.
C3_OtherKindsNoHeader ==
    /\ (result.op = "BuildInError::response"
            /\ result.on.kind \in DocumentedKinds \ {"WrongMethod"}) =>
          /\ ~result.out.panicked
          /\ Returned(result.out.value.status)
                 = BuildInError_http_status(result.on)
          /\ result.out.value.status
                 = IF result.on.kind \in {"QueryParam", "Body"} THEN 400 ELSE 404
          /\ result.out.value.headers = <<>>
    /\ (result.op = "BuildInError::response"
            /\ built.ctor = "FromRequestError::no_matching_route") =>
          /\ result.out.value.status = 404
          /\ AllowHeaders(result.out.value) = {}

\* C3 witness: the error inside no_matching_route() was taken out and its
\* response() had status 404 and no header.
C3_Witness ==
    /\ result.op = "BuildInError::response"
    /\ built.ctor = "FromRequestError::no_matching_route"
    /\ result.out = Returned([status |-> 404, headers |-> <<>>, body |-> "()"])

\* C4: http_status() and the display text of a kind return for every value
\* the enum admits, and the enum has exactly the five documented values.
C4_KindOperationsTotal ==
    result.op \in {"BuildInErrorKind::http_status", "BuildInErrorKind::fmt"} =>
        /\ result.on \in DocumentedKinds
        /\ ~result.out.panicked

\* C5: a built error's stored method list is non-empty only if its kind is
\* WrongMethod; allowed_methods() is present exactly for WrongMethod, then
\* handing out the list the constructor was given, in its order.
C5_AllowedMethodsOnlyForWrongMethod ==
    /\ HoldsBuildInError =>
         /\ HeldBuildInError.allowed_methods # <<>> =>
                HeldBuildInError.kind = "WrongMethod"
         /\ HeldBuildInError.allowed_methods = SuppliedMethods
    /\ result.op = "BuildInError::allowed_methods" =>
         /\ result.out.value.some <=> result.on.kind = "WrongMethod"
         /\ result.out.value.some =>
                result.out.value.value = SuppliedMethods

\* C5 witness: allowed_methods() on wrong_method(["post", GET]) handed out
\* that very list.
C5_Witness ==
    /\ result.op = "BuildInError::allowed_methods"
    /\ built.ctor = "BuildInError::wrong_method"
    /\ built.allowed_methods = <<ext_post, std_get>>
    /\ result.out = Returned(Some(built.allowed_methods))

\* C6: exactly one of as_custom() and as_build_in() is present, and the
\* by-value accessors lose nothing: into_build_in() gives Ok(b) on BuildIn(b)
\* and Err(Custom(e)) on Custom(e); into_custom() gives Ok(e) on Custom(e)
\* and Err(BuildIn(b)) on BuildIn(b), kind, methods and cause as built.
C6_AccessorsLossless ==
    /\ self.type = "FromRequestError" =>
         FromRequestError_as_custom(self.value).some
             # FromRequestError_as_build_in(self.value).some
    /\ result.op = "FromRequestError::as_custom" =>
         result.out.value
             = IF result.on.tag = "Custom" THEN Some(result.on.payload)
               ELSE None
    /\ result.op = "FromRequestError::as_build_in" =>
         result.out.value
             = IF result.on.tag = "BuildIn" THEN Some(result.on.payload)
               ELSE None
    /\ result.op = "FromRequestError::into_build_in" =>
         /\ result.on.tag = "BuildIn" =>
              /\ result.out.value = Ok(result.on.payload)
              /\ result.out.value.value.allowed_methods = SuppliedMethods
         /\ result.on.tag = "Custom" =>
              /\ result.out.value = Err(result.on)
              /\ result.out.value.error = Custom(built.custom)
    /\ result.op = "FromRequestError::into_custom" =>
         /\ result.on.tag = "Custom" =>
              /\ result.out.value = Ok(result.on.payload)
              /\ result.out.value.value = built.custom
         /\ result.on.tag = "BuildIn" =>
              /\ result.out.value = Err(result.on)
              /\ result.out.value.error.tag = "BuildIn"
              /\ result.out.value.error.payload.kind = result.on.payload.kind
              /\ result.out.value.error.payload.allowed_methods
                     = SuppliedMethods
              /\ result.out.value.error.payload.source
                     = result.on.payload.source

\* C6 witness: into_custom() on a BuildIn error that stores a cause handed
\* the whole error back.
C6_Witness ==
    /\ result.op = "FromRequestError::into_custom"
    /\ result.on.tag = "BuildIn"
    /\ result.on.payload.source.some
    /\ result.out = Returned(Err(result.on))
    /\ self = OwnsFromRequestError(result.on)

\* C7: convert_custom_error maps Custom(e) to Custom(f(e)) and BuildIn(b) to
\* BuildIn(b) with kind, method list and cause as they were; the variant is
\* never changed.
C7_ConvertCustomError ==
    result.op = "FromRequestError::convert_custom_error" =>
        /\ result.out.value.tag = result.on.tag
        /\ result.on.tag = "Custom" =>
             /\ result.out.value.payload = E_into(result.on.payload)
             /\ result.out.value.payload
                    = [variant |-> "Db", inner |-> built.custom]
        /\ result.on.tag = "BuildIn" =>
             /\ result.out.value.payload.kind = result.on.payload.kind
             /\ result.out.value.payload.allowed_methods
                    = result.on.payload.allowed_methods
             /\ result.out.value.payload.allowed_methods = SuppliedMethods
             /\ result.out.value.payload.source = result.on.payload.source

\* C7 witness: a BuildIn error holding two methods went through
\* convert_custom_error and came out the same.
C7_Witness ==
    /\ result.op = "FromRequestError::convert_custom_error"
    /\ result.on.tag = "BuildIn"
    /\ result.on.payload.allowed_methods = <<ext_get, ext_post>>
    /\ result.out = Returned(result.on)

C10_IntoFutureCompleted ==
    built.ctor = "FromRequestError::into_future" =>
        /\ future.some
        /\ future.value.polls = 0 =>
               future.value.task.inner = Some(Err(built.this))
        /\ (result.op = "Future::poll" /\ result.on.polls = 0) =>
               result.out = Returned(Err(built.this))

\* C10 witness: the first poll of a future made from a Custom error returned
\* the failure carrying it.
C10_Witness ==
    /\ built.ctor = "FromRequestError::into_future"
    /\ built.this.tag = "Custom"
    /\ result.op = "Future::poll"
    /\ result.on.polls = 0
    /\ result.out = Returned(Err(built.this))

====
